---- MODULE Spec2Model ----
(***************************************************************************)
(* Model of src/bridges_top_n.py: the DeFiLlama bridges ETL.               *)
(*                                                                         *)
(* Floats are modelled as exact decimals [num, scale] (value num/10^scale) *)
(* so that parsing, sums and ratios are computed rather than assumed.      *)
(* Strings are sequences of one-character strings.  JSON values are tagged *)
(* records [t |-> ...].                                                    *)
(***************************************************************************)
EXTENDS Integers, Sequences, FiniteSets, TLC

VARIABLES
    pc,             \* position of the running function
    \* ---- to_float ----
    x,              \* argument of to_float
    res,            \* value returned by to_float
    \* ---- http_get_json ----
    max_retries, initial_delay,
    outcomes,       \* outcome of the i-th requests.get: "fail" or a payload
    attempt,        \* loop variable of http_get_json
    delay,          \* local `delay` (milliseconds)
    sleeps,         \* the arguments of time.sleep so far (milliseconds)
    gets,           \* number of requests.get calls so far
    fres,           \* result of http_get_json: none / ok(payload) / raised
    \* ---- main, collect_daily_rows ----
    catalog,        \* what http_get_json(BRIDGES_URL) does in this run
    hist,           \* bridge id -> what http_get_json(BRIDGE_VOLUME_URL, id) does
    max_bridges, top_n, start_month, end_month,
    ids_all, name_map,
    i,              \* loop index of collect_daily_rows
    rows,           \* the list `rows`
    written,        \* names of the output files written so far, in order
    exit_status,    \* process exit status, -1 while running
    caller,         \* which function awaits the running http_get_json
    \* ---- aggregation ----
    df, monthly, yearly, monthly_top_n, yearly_top_n

coerceVars == <<x, res>>
fetchVars  == <<max_retries, initial_delay, outcomes, attempt, delay, sleeps, gets, fres>>
envVars    == <<catalog, hist, max_bridges, top_n, start_month, end_month>>
mainVars   == <<ids_all, name_map, i, rows, written, exit_status, caller>>
aggVars    == <<df, monthly, yearly, monthly_top_n, yearly_top_n>>
vars == <<pc, coerceVars, fetchVars, envVars, mainVars, aggVars>>

\* ------------------------------------------------------------------------
\* Bounds of the model
\* ------------------------------------------------------------------------
MaxStrLen == 3          \* longest enumerated to_float string
MaxRetriesBound == 5    \* largest max_retries tried
MaxHist == 2            \* longest raw history of one bridge
MaxRows == 3            \* longest daily row list given to the aggregation

\* ------------------------------------------------------------------------
\* Generic helpers
\* ------------------------------------------------------------------------
Max(a, b) == IF a >= b THEN a ELSE b
Min(a, b) == IF a <= b THEN a ELSE b

RECURSIVE Pow10(_)
Pow10(n) == IF n = 0 THEN 1 ELSE 10 * Pow10(n - 1)

SeqsUpTo(S, n) == UNION {[1..k -> S] : k \in 0..n}

\* ------------------------------------------------------------------------
\* Decimals: the model of Python floats
\* ------------------------------------------------------------------------
RECURSIVE DecNorm(_, _)
DecNorm(num, scale) ==
    IF num = 0 THEN [num |-> 0, scale |-> 0]
    ELSE IF scale > 0 /\ num % 10 = 0 THEN DecNorm(num \div 10, scale - 1)
    ELSE [num |-> num, scale |-> scale]

D(n) == [num |-> n, scale |-> 0]
Zero == D(0)

\* numerator of a at scale s >= a.scale
AtScale(a, s) == a.num * Pow10(s - a.scale)

DecAdd(a, b) ==
    LET s == Max(a.scale, b.scale) IN DecNorm(AtScale(a, s) + AtScale(b, s), s)
DecSub(a, b) ==
    LET s == Max(a.scale, b.scale) IN DecNorm(AtScale(a, s) - AtScale(b, s), s)
DecLess(a, b) ==
    LET s == Max(a.scale, b.scale) IN AtScale(a, s) < AtScale(b, s)

\* ------------------------------------------------------------------------
\* Strings
\* ------------------------------------------------------------------------
Digits == <<"0", "1", "2", "3", "4", "5", "6", "7", "8", "9">>
IsDigit(c) == \E k \in 1..10 : Digits[k] = c
DigitVal(c) == (CHOOSE k \in 1..10 : Digits[k] = c) - 1

RECURSIVE Remove(_, _)
\* str.replace(c, "")
Remove(s, c) ==
    IF s = <<>> THEN <<>>
    ELSE IF Head(s) = c THEN Remove(Tail(s), c)
    ELSE <<Head(s)>> \o Remove(Tail(s), c)

\* str.replace(c, d) for one-character c, d
Replace(s, c, d) == [k \in 1..Len(s) |-> IF s[k] = c THEN d ELSE s[k]]

RECURSIVE LStrip(_)
LStrip(s) == IF s # <<>> /\ Head(s) = " " THEN LStrip(Tail(s)) ELSE s
RECURSIVE RStrip(_)
RStrip(s) ==
    IF s # <<>> /\ s[Len(s)] = " " THEN RStrip(SubSeq(s, 1, Len(s) - 1)) ELSE s
\* str.strip()
Strip(s) == LStrip(RStrip(s))

RECURSIVE DigitsVal(_)
\* value of a string of digits
DigitsVal(s) ==
    IF s = <<>> THEN 0
    ELSE 10 * DigitsVal(SubSeq(s, 1, Len(s) - 1)) + DigitVal(s[Len(s)])

\* float(str): surrounding blanks are ignored; an optional sign, then digits
\* with at most one ".", at least one digit.  (Strings of the model's
\* alphabet hold no exponent, underscore, "inf" or "nan".)
ParseFloat(cs) ==
    LET s     == Strip(cs)
        neg   == s # <<>> /\ Head(s) = "-"
        body  == IF neg THEN Tail(s) ELSE s
        dots  == {k \in 1..Len(body) : body[k] = "."}
        digs  == Remove(body, ".")
        good  == /\ digs # <<>>
                 /\ \A k \in 1..Len(digs) : IsDigit(digs[k])
                 /\ Cardinality(dots) <= 1
        scale == IF dots = {} THEN 0 ELSE Len(body) - (CHOOSE k \in dots : TRUE)
        mag   == DigitsVal(digs)
    IN  IF good
        THEN [ok |-> TRUE, v |-> DecNorm(IF neg THEN 0 - mag ELSE mag, scale)]
        ELSE [ok |-> FALSE, v |-> Zero]

\* ------------------------------------------------------------------------
\* JSON / Python values
\* ------------------------------------------------------------------------
None == [t |-> "null"]
Num(d) == [t |-> "num", v |-> d]
Str(s) == [t |-> "str", s |-> s]
Other == [t |-> "other"]       \* a list, a dict: neither None, number nor str

\* nz(v, fb), src lines 56-61
nz(v, fb) ==
    IF v.t = "null" THEN fb
    ELSE IF v.t = "str" /\ Strip(v.s) = <<>> THEN fb
    ELSE v

\* the three candidates of to_float, in the order tried
Candidates(s) ==
    << Remove(s, " "),
       Replace(Remove(s, "."), ",", "."),
       Remove(s, ",") >>

RECURSIVE FirstParse(_)
\* the for loop over candidates: the first one float() accepts wins
FirstParse(cands) ==
    IF cands = <<>> THEN Zero
    ELSE IF ParseFloat(Head(cands)).ok THEN ParseFloat(Head(cands)).v
    ELSE FirstParse(Tail(cands))

\* to_float(x), src lines 63-83
to_float(v) ==
    IF v.t = "null" THEN Zero
    ELSE IF v.t = "num" THEN v.v
    ELSE IF v.t = "str" THEN
        LET s == Strip(v.s) IN IF s = <<>> THEN Zero ELSE FirstParse(Candidates(s))
    ELSE Zero

\* ------------------------------------------------------------------------
\* Idle values of the variables a specification does not use
\* ------------------------------------------------------------------------
NoResult == [t |-> "none"]
CoerceIdle == x = None /\ res = Zero
FetchIdle ==
    /\ max_retries = 0 /\ initial_delay = 0 /\ outcomes = <<>>
    /\ attempt = 0 /\ delay = 0 /\ sleeps = <<>> /\ gets = 0 /\ fres = NoResult
EnvIdle ==
    /\ catalog = <<>> /\ hist = <<>> /\ max_bridges = 0
    /\ top_n = 0 /\ start_month = <<>> /\ end_month = <<>>
MainIdle ==
    /\ ids_all = <<>> /\ name_map = <<>> /\ i = 0 /\ rows = <<>>
    /\ written = <<>> /\ exit_status = -1 /\ caller = "none"
AggIdle ==
    /\ df = <<>> /\ monthly = <<>> /\ yearly = <<>>
    /\ monthly_top_n = <<>> /\ yearly_top_n = <<>>

\* ------------------------------------------------------------------------
\* to_float as a one-step program
\* ------------------------------------------------------------------------
S_EU  == <<"1", ".", "2", "3", "4", ",", "5", "6">>      \* "1.234,56"
S_US  == <<"1", ",", "2", "3", "4", ".", "5", "6">>      \* "1,234.56"
S_abc == <<"a", "b", "c">>                               \* "abc"

Alphabet == {"1", "2", ".", ",", " ", "a", "-"}

ToFloatInputs ==
    {None, Other, Num(D(7)), Num(DecNorm(-25, 1))}
      \cup {Str(s) : s \in SeqsUpTo(Alphabet, MaxStrLen)}
      \cup {Str(S_EU), Str(S_US), Str(S_abc)}

InitCoerce ==
    /\ pc = "to_float_call"
    /\ x \in ToFloatInputs
    /\ res = Zero
    /\ FetchIdle /\ EnvIdle /\ MainIdle /\ AggIdle

ToFloatCall ==
    /\ pc = "to_float_call"
    /\ res' = to_float(x)
    /\ pc' = "to_float_done"
    /\ UNCHANGED <<x, fetchVars, envVars, mainVars, aggVars>>

NextCoerce == ToFloatCall
SpecCoerce == InitCoerce /\ [][NextCoerce]_vars

\* ------------------------------------------------------------------------
\* http_get_json, src lines 85-106
\* ------------------------------------------------------------------------
DefaultMaxRetries == 5
DefaultInitialDelayMs == 400
CapMs == 8000

Fail == [t |-> "fail"]                      \* requests.get / raise_for_status raised
Ok(p) == [t |-> "ok", payload |-> p]        \* http_get_json returned p
Raised == [t |-> "raise"]                   \* http_get_json raised RuntimeError

\* faulty variant: the loop is left one attempt early
LastAttemptOff(a, mr) == a >= mr - 1
\* `if attempt == max_retries: break`
LastAttempt(a, mr) == a = mr

\* `delay = min(delay * 2, 8.0)`
NextDelay(d) == Min(d * 2, CapMs)

\* lines 92-95: locals set, the for loop entered (or skipped when the range is empty)
HttpEnter ==
    /\ pc = "http_call"
    /\ delay' = initial_delay
    /\ attempt' = 1
    /\ sleeps' = <<>> /\ gets' = 0 /\ fres' = NoResult
    /\ pc' = IF max_retries >= 1 THEN "http_loop" ELSE "http_raise"
    /\ UNCHANGED <<max_retries, initial_delay, outcomes,
                   coerceVars, envVars, mainVars, aggVars>>

\* lines 96-99: the GET of this attempt succeeds; its JSON is returned
HttpAttemptOk ==
    /\ pc = "http_loop"
    /\ outcomes[attempt] # Fail
    /\ gets' = gets + 1
    /\ fres' = Ok(outcomes[attempt])
    /\ pc' = "http_done"
    /\ UNCHANGED <<max_retries, initial_delay, outcomes, attempt, delay, sleeps,
                   coerceVars, envVars, mainVars, aggVars>>

\* lines 100-105: the GET of this attempt fails
HttpAttemptFail ==
    /\ pc = "http_loop"
    /\ outcomes[attempt] = Fail
    /\ gets' = gets + 1
    /\ IF LastAttempt(attempt, max_retries)
       THEN /\ pc' = "http_raise"
            /\ UNCHANGED <<attempt, delay, sleeps>>
       ELSE /\ sleeps' = Append(sleeps, delay)
            /\ delay' = NextDelay(delay)
            /\ attempt' = attempt + 1
            /\ pc' = "http_loop"
    /\ UNCHANGED <<max_retries, initial_delay, outcomes, fres,
                   coerceVars, envVars, mainVars, aggVars>>

\* line 106
HttpRaise ==
    /\ pc = "http_raise"
    /\ fres' = Raised
    /\ pc' = "http_done"
    /\ UNCHANGED <<max_retries, initial_delay, outcomes, attempt, delay, sleeps, gets,
                   coerceVars, envVars, mainVars, aggVars>>

\* two distinct JSON bodies
PayloadA == [t |-> "dict", hasBridges |-> FALSE, bridges |-> <<>>]
PayloadB == [t |-> "list", items |-> <<>>]

InitialDelays == {DefaultInitialDelayMs, 3000, 10000}

InitFetch ==
    /\ pc = "http_call"
    /\ max_retries \in 0..MaxRetriesBound
    /\ initial_delay \in InitialDelays
    /\ outcomes \in [1..max_retries -> {Fail, PayloadA, PayloadB}]
    /\ attempt = 0 /\ delay = 0 /\ sleeps = <<>> /\ gets = 0 /\ fres = NoResult
    /\ CoerceIdle /\ EnvIdle /\ MainIdle /\ AggIdle

NextFetch == HttpEnter \/ HttpAttemptOk \/ HttpAttemptFail \/ HttpRaise
SpecFetch == InitFetch /\ [][NextFetch]_vars

\* ------------------------------------------------------------------------
\* Dates
\* ------------------------------------------------------------------------
SecondsPerDay == 86400

\* dt.datetime.utcfromtimestamp(ts).date() for ts > 0: days since the epoch
\* to the proleptic Gregorian civil date
CivilFromDays(days) ==
    LET z   == days + 719468
        era == z \div 146097
        doe == z - era * 146097
        yoe == (doe - doe \div 1460 + doe \div 36524 - doe \div 146096) \div 365
        doy == doe - (365 * yoe + yoe \div 4 - yoe \div 100)
        mp  == (5 * doy + 2) \div 153
        d   == doy - (153 * mp + 2) \div 5 + 1
        m   == IF mp < 10 THEN mp + 3 ELSE mp - 9
        y   == yoe + era * 400 + (IF m <= 2 THEN 1 ELSE 0)
    IN  [y |-> y, m |-> m, d |-> d]

RECURSIVE Pad(_, _)
\* n in decimal, zero-padded to w characters
Pad(n, w) == IF w = 0 THEN <<>> ELSE Pad(n \div 10, w - 1) \o <<Digits[(n % 10) + 1]>>

\* date.isoformat()
IsoFormat(c) == Pad(c.y, 4) \o <<"-">> \o Pad(c.m, 2) \o <<"-">> \o Pad(c.d, 2)
EpochIso == <<"1", "9", "7", "0", "-", "0", "1", "-", "0", "1">>

\* line 158
DateIso(ts) == IF ts > 0 THEN IsoFormat(CivilFromDays(ts \div SecondsPerDay)) ELSE EpochIso

\* pd.to_datetime(..., format="%Y-%m-%d")
ToDatetime(iso) ==
    [y |-> DigitsVal(SubSeq(iso, 1, 4)),
     m |-> DigitsVal(SubSeq(iso, 6, 7)),
     d |-> DigitsVal(SubSeq(iso, 9, 10))]

\* .dt.strftime("%Y-%m")
MonthStr(c) == Pad(c.y, 4) \o <<"-">> \o Pad(c.m, 2)

\* code point order of the characters of a month string ("-" sorts before "0")
CharOrd(c) == IF IsDigit(c) THEN DigitVal(c) + 1 ELSE 0

RECURSIVE StrLeq(_, _)
\* a <= b on Python strings (lexicographic)
StrLeq(a, b) ==
    IF a = <<>> THEN TRUE
    ELSE IF b = <<>> THEN FALSE
    ELSE IF Head(a) # Head(b) THEN CharOrd(Head(a)) < CharOrd(Head(b))
    ELSE StrLeq(Tail(a), Tail(b))

\* ------------------------------------------------------------------------
\* Raw history records and their normalisation (collect_daily_rows)
\* ------------------------------------------------------------------------
Missing == [t |-> "missing"]                   \* the key is absent
Rec(date, dep, wd) == [t |-> "dict", date |-> date, depositUSD |-> dep, withdrawUSD |-> wd]

\* dict.get(key): None for an absent key
Get(v) == IF v = Missing THEN None ELSE v

\* int(v): [ok, n]; not ok when int() raises
IntOf(v) ==
    IF v.t = "num" THEN
        [ok |-> TRUE,
         n |-> IF v.v.num >= 0 THEN v.v.num \div Pow10(v.v.scale)
               ELSE 0 - ((0 - v.v.num) \div Pow10(v.v.scale))]
    ELSE IF v.t = "str" THEN
        LET p == ParseFloat(v.s)
        IN  IF p.ok /\ (\A k \in 1..Len(v.s) : v.s[k] # ".")
            THEN [ok |-> TRUE, n |-> p.v.num] ELSE [ok |-> FALSE, n |-> 0]
    ELSE [ok |-> FALSE, n |-> 0]

\* lines 154-157: a record that is no dict makes r.get raise, which this try swallows
Timestamp(r) ==
    IF r.t # "dict" THEN 0
    ELSE LET v == IntOf(nz(Get(r.date), Num(Zero))) IN IF v.ok THEN v.n ELSE 0

BridgeFallbackName(bid) == "bridge-" \o ToString(bid)
NameOf(nm, bid) == IF bid \in DOMAIN nm THEN nm[bid] ELSE BridgeFallbackName(bid)

\* lines 160-171: the row appended for record r (r is a dict)
DailyRow(r, bid, nm) ==
    LET dep == to_float(nz(Get(r.depositUSD), Num(Zero)))
        wd  == to_float(nz(Get(r.withdrawUSD), Num(Zero)))
    IN  [bridgeId |-> bid, bridgeName |-> NameOf(nm, bid), date |-> DateIso(Timestamp(r)),
         depositUSD |-> dep, withdrawUSD |-> wd,
         totalUSD |-> DecAdd(dep, wd), netUSD |-> DecSub(dep, wd)]

\* line 160 raises AttributeError on a record that is no dict (JSON null)
RecordRaises(r) == r.t # "dict"

RECURSIVE NormalizeInto(_, _, _, _)
\* lines 153-171: the inner for loop; rows appended before a raising record stay
NormalizeInto(acc, items, bid, nm) ==
    IF items = <<>> THEN [rows |-> acc, raised |-> FALSE]
    ELSE IF RecordRaises(Head(items)) THEN [rows |-> acc, raised |-> TRUE]
    ELSE NormalizeInto(Append(acc, DailyRow(Head(items), bid, nm)), Tail(items), bid, nm)

\* fetch_bridge_daily_all, lines 115-125, applied to what http_get_json did
FetchBridgeDailyAll(r) ==
    IF r = Raised THEN Raised
    ELSE IF r.payload.t # "list" THEN Raised
    ELSE IF r.payload.items = <<>> THEN Raised
    ELSE IF r.payload.items[1].t # "dict" THEN Raised          \* TypeError of `in`
    ELSE IF r.payload.items[1].date = Missing THEN Raised
    ELSE Ok(r.payload.items)

\* lines 151-173: the try block of one bridge
CollectOne(acc, r, bid, nm) ==
    LET h == FetchBridgeDailyAll(r)
    IN  IF h = Raised THEN acc ELSE NormalizeInto(acc, h.payload, bid, nm).rows

\* fetch_bridges_overview, lines 108-113
FetchBridgesOverview(r) ==
    IF r = Raised THEN Raised
    ELSE IF r.payload.t # "dict" \/ ~r.payload.hasBridges THEN Raised
    ELSE Ok(r.payload.bridges)

\* ------------------------------------------------------------------------
\* Aggregation (main lines 278-344, aggregate_monthly_yearly, top_n_per_period)
\* ------------------------------------------------------------------------
RECURSIVE MapFrame(_)
\* lines 278-281: the DataFrame with the parsed date, `year` and `month`
MapFrame(rs) ==
    IF rs = <<>> THEN <<>>
    ELSE LET r == Head(rs)
             c == ToDatetime(r.date)
         IN  <<[bridgeId |-> r.bridgeId, bridgeName |-> r.bridgeName, date |-> c,
                year |-> c.y, month |-> MonthStr(c),
                depositUSD |-> r.depositUSD, withdrawUSD |-> r.withdrawUSD,
                totalUSD |-> r.totalUSD, netUSD |-> r.netUSD]>> \o MapFrame(Tail(rs))

\* `df["month"] >= args.start_month`, skipped for an empty option
FromStart(m, sm) == sm = <<>> \/ StrLeq(sm, m)
\* `df["month"] <= args.end_month`, skipped for an empty option
UpToEnd(m, em) == em = <<>> \/ StrLeq(m, em)

\* lines 283-286
FilterFrame(f, sm, em) ==
    LET Keep(r) == FromStart(r.month, sm) /\ UpToEnd(r.month, em) IN SelectSeq(f, Keep)

PeriodOf(r, col) == IF col = "month" THEN r.month ELSE r.year
PeriodLeq(a, b, col) == IF col = "month" THEN StrLeq(a, b) ELSE a <= b
PeriodLess(a, b, col) == a # b /\ PeriodLeq(a, b, col)

RECURSIVE SortKeys(_, _)
\* the group keys in groupby's sorted order: (bridgeId, bridgeName, period);
\* bridgeName is a function of bridgeId (line 165), so (bridgeId, period) decides
SortKeys(ks, col) ==
    IF ks = {} THEN <<>>
    ELSE LET k == CHOOSE a \in ks : \A b \in ks :
                     \/ a[1] < b[1]
                     \/ (a[1] = b[1] /\ PeriodLeq(a[2], b[2], col))
         IN  <<k>> \o SortKeys(ks \ {k}, col)

RECURSIVE ColSum(_, _)
\* sum of one USD column over the rows of f
ColSum(f, c) ==
    IF f = <<>> THEN Zero
    ELSE DecAdd((IF c = "depositUSD" THEN Head(f).depositUSD
                 ELSE IF c = "withdrawUSD" THEN Head(f).withdrawUSD
                 ELSE IF c = "totalUSD" THEN Head(f).totalUSD
                 ELSE Head(f).netUSD), ColSum(Tail(f), c))

\* faulty variant: only the first row of a group is counted
GroupSumFirstOnly(f, col) ==
    LET keys == SortKeys({<<f[k].bridgeId, PeriodOf(f[k], col)>> : k \in 1..Len(f)}, col)
        First(key) == LET In(r) == r.bridgeId = key[1] /\ PeriodOf(r, col) = key[2]
                      IN  <<Head(SelectSeq(f, In))>>
        Name(key) == First(key)[1].bridgeName
        Agg(key) ==
            IF col = "month"
            THEN [month |-> key[2], bridgeId |-> key[1], bridgeName |-> Name(key),
                  depositUSD |-> ColSum(First(key), "depositUSD"),
                  withdrawUSD |-> ColSum(First(key), "withdrawUSD"),
                  totalUSD |-> ColSum(First(key), "totalUSD"),
                  netUSD |-> ColSum(First(key), "netUSD")]
            ELSE [year |-> key[2], bridgeId |-> key[1], bridgeName |-> Name(key),
                  depositUSD |-> ColSum(First(key), "depositUSD"),
                  withdrawUSD |-> ColSum(First(key), "withdrawUSD"),
                  totalUSD |-> ColSum(First(key), "totalUSD"),
                  netUSD |-> ColSum(First(key), "netUSD")]
    IN  [k \in 1..Len(keys) |-> Agg(keys[k])]

\* groupby([bridgeId, bridgeName, col]).agg(sum) followed by the column reorder
GroupSum(f, col) ==
    LET keys == SortKeys({<<f[k].bridgeId, PeriodOf(f[k], col)>> : k \in 1..Len(f)}, col)
        Members(key) == LET In(r) == r.bridgeId = key[1] /\ PeriodOf(r, col) = key[2]
                        IN  SelectSeq(f, In)
        Name(key) == Members(key)[1].bridgeName
        Agg(key) ==
            IF col = "month"
            THEN [month |-> key[2], bridgeId |-> key[1], bridgeName |-> Name(key),
                  depositUSD |-> ColSum(Members(key), "depositUSD"),
                  withdrawUSD |-> ColSum(Members(key), "withdrawUSD"),
                  totalUSD |-> ColSum(Members(key), "totalUSD"),
                  netUSD |-> ColSum(Members(key), "netUSD")]
            ELSE [year |-> key[2], bridgeId |-> key[1], bridgeName |-> Name(key),
                  depositUSD |-> ColSum(Members(key), "depositUSD"),
                  withdrawUSD |-> ColSum(Members(key), "withdrawUSD"),
                  totalUSD |-> ColSum(Members(key), "totalUSD"),
                  netUSD |-> ColSum(Members(key), "netUSD")]
    IN  [k \in 1..Len(keys) |-> Agg(keys[k])]

\* row a sorts strictly before row b under sort_values([col, "totalUSD"], [True, False])
SortsBefore(a, b, col) ==
    \/ PeriodLess(PeriodOf(a, col), PeriodOf(b, col), col)
    \/ (PeriodOf(a, col) = PeriodOf(b, col) /\ DecLess(b.totalUSD, a.totalUSD))

RECURSIVE InsertSorted(_, _, _)
InsertSorted(s, e, col) ==
    IF s = <<>> THEN <<e>>
    ELSE IF SortsBefore(e, Head(s), col) THEN <<e>> \o s
    ELSE <<Head(s)>> \o InsertSorted(Tail(s), e, col)

RECURSIVE SortValues(_, _)
\* DataFrame.sort_values on two keys: a stable sort, equal keys keep their order
SortValues(t, col) ==
    IF t = <<>> THEN <<>>
    ELSE InsertSorted(SortValues(SubSeq(t, 1, Len(t) - 1), col), t[Len(t)], col)

\* faulty variant: one row too many is kept per group
HeadPerGroupOff(t, col, n) ==
    LET Rank(k) == Cardinality({j \in 1..k : PeriodOf(t[j], col) = PeriodOf(t[k], col)})
        keep == {k \in 1..Len(t) : Rank(k) <= n + 1}
        RECURSIVE Pick(_)
        Pick(k) == IF k > Len(t) THEN <<>>
                   ELSE (IF k \in keep THEN <<t[k]>> ELSE <<>>) \o Pick(k + 1)
    IN  Pick(1)
\* groupby(col, sort=False).head(n): the first n rows of every group, in table order
HeadPerGroup(t, col, n) ==
    LET Rank(k) == Cardinality({j \in 1..k : PeriodOf(t[j], col) = PeriodOf(t[k], col)})
        keep == {k \in 1..Len(t) : Rank(k) <= n}
        RECURSIVE Pick(_)
        Pick(k) == IF k > Len(t) THEN <<>>
                   ELSE (IF k \in keep THEN <<t[k]>> ELSE <<>>) \o Pick(k + 1)
    IN  Pick(1)

\* aggregate_monthly_yearly: the yearly table is sorted, the monthly one is not
aggregate_monthly(f) == GroupSum(f, "month")
aggregate_yearly(f) == SortValues(GroupSum(f, "year"), "year")

\* top_n_per_period, lines 201-213 (main inlines the same expression, 301-305, 324-328)
top_n_per_period(t, col, n) == HeadPerGroup(SortValues(t, col), col, n)

\* ------------------------------------------------------------------------
\* Shares (main lines 307-316 and 330-339)
\* ------------------------------------------------------------------------
\* a / b on float columns: x/0 is +-inf, 0/0 is NaN, nothing raises
FDiv(a, b) ==
    LET s  == Max(a.scale, b.scale)
        an == AtScale(a, s)
        bn == AtScale(b, s)
    IN  IF bn # 0 THEN [k |-> "num", n |-> an, d |-> bn]
        ELSE IF an = 0 THEN [k |-> "nan", n |-> 0, d |-> 1]
        ELSE IF an > 0 THEN [k |-> "inf", n |-> 0, d |-> 1]
        ELSE [k |-> "-inf", n |-> 0, d |-> 1]

\* q * 100.0
Times100(q) == IF q.k = "num" THEN [q EXCEPT !.n = q.n * 100] ELSE q

\* .fillna(0.0): NaN becomes 0.0, an infinity stays
FillNa0(q) == IF q.k = "nan" THEN [k |-> "num", n |-> 0, d |-> 1] ELSE q

\* n / d rounded to the nearest integer, ties to even (d # 0)
RoundDiv(n, d) ==
    LET nn == IF d < 0 THEN 0 - n ELSE n
        dd == IF d < 0 THEN 0 - d ELSE d
        q  == nn \div dd
        r  == nn % dd
    IN  IF 2 * r < dd THEN q
        ELSE IF 2 * r > dd THEN q + 1
        ELSE IF q % 2 = 0 THEN q ELSE q + 1

\* .round(2)
Round2(q) ==
    IF q.k = "num" THEN [k |-> "num", v |-> DecNorm(RoundDiv(q.n * 100, q.d), 2)]
    ELSE [k |-> q.k, v |-> Zero]

\* lines 313-315: ((totalUSD / period_totalUSD) * 100.0).fillna(0.0).round(2)
Shares(total, periodTotal) == Round2(FillNa0(Times100(FDiv(total, periodTotal))))

\* lines 307-310: groupby(col)["totalUSD"].sum() over table t, looked up for period p
PeriodTotal(t, col, p) ==
    LET In(r) == PeriodOf(r, col) = p IN ColSum(SelectSeq(t, In), "totalUSD")

\* faulty variant: the period totals are taken over the selected rows only
WithSharesOfTop(top, full, col) ==
    [k \in 1..Len(top) |->
        [period |-> PeriodOf(top[k], col), bridgeId |-> top[k].bridgeId,
         bridgeName |-> top[k].bridgeName, totalUSD |-> top[k].totalUSD,
         netUSD |-> top[k].netUSD,
         shares |-> Shares(top[k].totalUSD, PeriodTotal(top, col, PeriodOf(top[k], col)))]]
\* lines 312-316: merge the period totals of `full` onto `top`, add `shares`
WithShares(top, full, col) ==
    [k \in 1..Len(top) |->
        [period |-> PeriodOf(top[k], col), bridgeId |-> top[k].bridgeId,
         bridgeName |-> top[k].bridgeName, totalUSD |-> top[k].totalUSD,
         netUSD |-> top[k].netUSD,
         shares |-> Shares(top[k].totalUSD, PeriodTotal(full, col, PeriodOf(top[k], col)))]]

\* ------------------------------------------------------------------------
\* main, src lines 239-366
\* ------------------------------------------------------------------------
UncaughtExitStatus == 1     \* an exception leaving main() ends the interpreter with 1
ExitEmptyCatalog == 2
ExitNoRows == 1

DailyCsv == "all_bridges_daily.csv"
MonthlyCsv == "bridges_monthly.csv"
YearlyCsv == "bridges_yearly.csv"
MonthlyTopCsv(n) == "bridges_monthly_top_" \o ToString(n) \o ".csv"
YearlyTopCsv(n) == "bridges_yearly_top_" \o ToString(n) \o ".csv"

\* faulty variant: nothing is written
SaveCsvNothing(w, name) == w
\* save_csv / DataFrame.to_csv: the file exists afterwards
SaveCsv(w, name) == Append(w, name)

\* lines 253-259: `displayName or ... or f"bridge-{bid}"`
DisplayName(b) == IF b.displayName # "" THEN b.displayName ELSE BridgeFallbackName(b.id)
BuildNameMap(ov) ==
    [bid \in {ov[k].id : k \in 1..Len(ov)} |->
        LET last == CHOOSE k \in 1..Len(ov) :
                        ov[k].id = bid /\ \A j \in 1..Len(ov) : ov[j].id = bid => j <= k
        IN  DisplayName(ov[last])]
BuildIds(ov) == [k \in 1..Len(ov) |-> ov[k].id]
\* lines 261-263
Truncate(ids, mb) == IF mb > 0 THEN SubSeq(ids, 1, Min(mb, Len(ids))) ELSE ids

\* lines 240-247: main starts and asks http_get_json for the catalog
MainStart ==
    /\ pc = "main"
    /\ max_retries' = DefaultMaxRetries
    /\ initial_delay' = DefaultInitialDelayMs
    /\ outcomes' = catalog
    /\ caller' = "overview"
    /\ pc' = "http_call"
    /\ UNCHANGED <<attempt, delay, sleeps, gets, fres, coerceVars, envVars, aggVars,
                   ids_all, name_map, i, rows, written, exit_status>>

\* lines 111-113 and 247-266: the catalog call is back
OverviewReturn ==
    /\ pc = "http_done" /\ caller = "overview"
    /\ LET ov == FetchBridgesOverview(fres)
       IN  IF ov = Raised
           THEN /\ pc' = "uncaught" /\ exit_status' = UncaughtExitStatus
                /\ UNCHANGED <<ids_all, name_map, i>>
           ELSE IF ov.payload = <<>>
           THEN /\ pc' = "exit_empty_catalog" /\ exit_status' = ExitEmptyCatalog
                /\ UNCHANGED <<ids_all, name_map, i>>
           ELSE /\ name_map' = BuildNameMap(ov.payload)
                /\ ids_all' = Truncate(BuildIds(ov.payload), max_bridges)
                /\ i' = 1
                /\ pc' = "collect_loop"
                /\ UNCHANGED exit_status
    /\ caller' = "none"
    /\ UNCHANGED <<fetchVars, coerceVars, envVars, aggVars, rows, written>>

\* lines 149-152: the next bridge; its history is asked of http_get_json
CollectCall ==
    /\ pc = "collect_loop" /\ i <= Len(ids_all)
    /\ max_retries' = DefaultMaxRetries
    /\ initial_delay' = DefaultInitialDelayMs
    /\ outcomes' = hist[ids_all[i]]
    /\ caller' = "history"
    /\ pc' = "http_call"
    /\ UNCHANGED <<attempt, delay, sleeps, gets, fres, coerceVars, envVars, aggVars,
                   ids_all, name_map, i, rows, written, exit_status>>

\* lines 121-125 and 153-176: the history call is back; rows appended or bridge skipped
HistoryReturn ==
    /\ pc = "http_done" /\ caller = "history"
    /\ rows' = CollectOne(rows, fres, ids_all[i], name_map)
    /\ i' = i + 1
    /\ caller' = "none"
    /\ pc' = "collect_loop"
    /\ UNCHANGED <<fetchVars, coerceVars, envVars, aggVars,
                   ids_all, name_map, written, exit_status>>

\* lines 178 and 269-275: collect_daily_rows returns, the daily CSV is saved,
\* then `if not rows: sys.exit(1)`
SaveDaily ==
    /\ pc = "collect_loop" /\ i > Len(ids_all)
    /\ written' = SaveCsv(written, DailyCsv)
    /\ IF rows = <<>>
       THEN pc' = "exit_no_rows" /\ exit_status' = ExitNoRows
       ELSE pc' = "frame" /\ UNCHANGED exit_status
    /\ UNCHANGED <<fetchVars, coerceVars, envVars, aggVars,
                   ids_all, name_map, i, rows, caller>>

\* lines 278-298: frame, date filter, monthly and yearly tables and their CSVs
MainAggregate ==
    /\ pc = "frame"
    /\ df' = FilterFrame(MapFrame(rows), start_month, end_month)
    /\ monthly' = aggregate_monthly(df')
    /\ yearly' = aggregate_yearly(df')
    /\ written' = SaveCsv(SaveCsv(written, MonthlyCsv), YearlyCsv)
    /\ pc' = "monthly_top"
    /\ UNCHANGED <<fetchVars, coerceVars, envVars, monthly_top_n, yearly_top_n,
                   ids_all, name_map, i, rows, exit_status, caller>>

\* lines 301-321
MainMonthlyTop ==
    /\ pc = "monthly_top"
    /\ monthly_top_n' = WithShares(top_n_per_period(monthly, "month", top_n), monthly, "month")
    /\ written' = SaveCsv(written, MonthlyTopCsv(top_n))
    /\ pc' = "yearly_top"
    /\ UNCHANGED <<fetchVars, coerceVars, envVars, df, monthly, yearly, yearly_top_n,
                   ids_all, name_map, i, rows, exit_status, caller>>

\* lines 324-344
MainYearlyTop ==
    /\ pc = "yearly_top"
    /\ yearly_top_n' = WithShares(top_n_per_period(yearly, "year", top_n), yearly, "year")
    /\ written' = SaveCsv(written, YearlyTopCsv(top_n))
    /\ pc' = "summary"
    /\ UNCHANGED <<fetchVars, coerceVars, envVars, df, monthly, yearly, monthly_top_n,
                   ids_all, name_map, i, rows, exit_status, caller>>

\* lines 347-366: the console summary; main returns
MainFinish ==
    /\ pc = "summary"
    /\ exit_status' = 0
    /\ pc' = "finished"
    /\ UNCHANGED <<fetchVars, coerceVars, envVars, aggVars,
                   ids_all, name_map, i, rows, written, caller>>

\* ------------------------------------------------------------------------
\* Runs of main
\* ------------------------------------------------------------------------
M_2022_10 == <<"2", "0", "2", "2", "-", "1", "0">>       \* DEFAULT_START_MONTH
M_2025_08 == <<"2", "0", "2", "5", "-", "0", "8">>       \* DEFAULT_END_MONTH
DefaultTopN == 5

\* k failing GETs, then body p on every later one
Scenario(k, p) == [j \in 1..DefaultMaxRetries |-> IF j <= k THEN Fail ELSE p]
AllFail == Scenario(DefaultMaxRetries, Fail)

Bridges(bs) == [t |-> "dict", hasBridges |-> TRUE, bridges |-> bs]
B1 == [id |-> 1, displayName |-> "A"]
B2 == [id |-> 2, displayName |-> ""]

CatalogScenarios ==
    {AllFail, Scenario(2, Bridges(<<B1, B2>>))}
      \cup {Scenario(0, p) : p \in {PayloadA, PayloadB, Bridges(<<>>), Bridges(<<B1>>),
                                    Bridges(<<B1, B2>>), Bridges(<<B2, B1>>)}}

\* Unix timestamps of the raw records (seconds, UTC)
TS_2022_10_01 == 19266 * SecondsPerDay          \* 2022-10-01 00:00:00
TS_2022_09_30 == TS_2022_10_01 - 1               \* 2022-09-30 23:59:59
TS_2022_11_01 == 19297 * SecondsPerDay          \* 2022-11-01 00:00:00

\* raw records of the volume endpoint used in runs of main
R1 == Rec(Num(D(TS_2022_10_01)), Num(D(100)), Missing)
\* date "1672531200" (2023-01-01), depositUSD "300", withdrawUSD ""
R2 == Rec(Str(<<"1", "6", "7", "2", "5", "3", "1", "2", "0", "0">>),
          Str(<<"3", "0", "0">>), Str(<<>>))
RawRecsMain == {R1, R2, None}

HistScenarios ==
    {AllFail, Scenario(0, PayloadA)}
      \cup {Scenario(0, [t |-> "list", items |-> h]) : h \in SeqsUpTo(RawRecsMain, MaxHist)}

BridgeIds == {1, 2}

InitMain ==
    /\ pc = "main"
    /\ catalog \in CatalogScenarios
    /\ hist \in [BridgeIds -> HistScenarios]
    /\ max_bridges \in {0, 1}
    /\ top_n = DefaultTopN
    /\ start_month = M_2022_10
    /\ end_month = M_2025_08
    /\ CoerceIdle /\ FetchIdle /\ MainIdle /\ AggIdle

NextMain ==
    \/ MainStart \/ HttpEnter \/ HttpAttemptOk \/ HttpAttemptFail \/ HttpRaise
    \/ OverviewReturn \/ CollectCall \/ HistoryReturn \/ SaveDaily
    \/ MainAggregate \/ MainMonthlyTop \/ MainYearlyTop \/ MainFinish
SpecMain == InitMain /\ [][NextMain]_vars

\* ------------------------------------------------------------------------
\* Runs of the aggregation: main at line 277, for bounded row lists
\* ------------------------------------------------------------------------
MaxTopN == 2
AggNameMap == [b \in BridgeIds |-> IF b = 1 THEN "A" ELSE "B"]

\* (depositUSD, withdrawUSD) of the raw records: volumes 100, 300 and -100
Volumes == {<<100, 0>>, <<300, 0>>, <<0, -100>>}

\* raw records the rows are normalised from: three days, three volumes
RawRecsAgg ==
    {Rec(Num(D(ts)), Num(D(v[1])), Num(D(v[2]))) :
        ts \in {TS_2022_09_30, TS_2022_10_01, TS_2022_11_01}, v \in Volumes}

\* row lists as collect_daily_rows leaves them for the ids 1, 2 and
\* chronological histories: ordered by bridge, then by day
AggRowLists ==
    {rs \in SeqsUpTo({DailyRow(r, b, AggNameMap) : r \in RawRecsAgg, b \in BridgeIds},
                     MaxRows) :
        /\ rs # <<>>
        /\ \A k \in 1..(Len(rs) - 1) :
              \/ rs[k].bridgeId < rs[k + 1].bridgeId
              \/ (rs[k].bridgeId = rs[k + 1].bridgeId /\ StrLeq(rs[k].date, rs[k + 1].date))}

InitAgg ==
    /\ pc = "frame"
    /\ rows \in AggRowLists
    /\ top_n \in 1..MaxTopN
    /\ start_month = M_2022_10
    /\ end_month \in {M_2025_08, M_2022_10}
    /\ catalog = <<>> /\ hist = <<>> /\ max_bridges = 0
    /\ ids_all = <<1, 2>>
    /\ name_map = AggNameMap
    /\ i = 3
    /\ written = <<DailyCsv>>
    /\ exit_status = -1 /\ caller = "none"
    /\ CoerceIdle /\ FetchIdle /\ AggIdle

NextAgg == MainAggregate \/ MainMonthlyTop \/ MainYearlyTop \/ MainFinish
SpecAgg == InitAgg /\ [][NextAgg]_vars

\* ========================================================================
\* Properties
\* ========================================================================
SeqMin(S) == CHOOSE k \in S : \A j \in S : k <= j
Abs(n) == IF n < 0 THEN 0 - n ELSE n

\* indices of the planned GETs that succeed
Successes == {k \in 1..max_retries : outcomes[k] # Fail}

\* C1: for max_retries >= 1, http_get_json makes its GETs one after another and
\* stops at the first success, returning that attempt's payload; it raises only
\* when all max_retries attempts failed; the number of GETs is
\* min(index of first success, max_retries) and never exceeds max_retries.
C1_StopsAtFirstSuccess ==
    /\ gets <= max_retries
    /\ (pc = "http_done" /\ max_retries >= 1) =>
          IF Successes # {}
          THEN fres = Ok(outcomes[SeqMin(Successes)]) /\ gets = SeqMin(Successes)
          ELSE fres = Raised /\ gets = max_retries

\* fail, fail, succeed: three GETs, the third payload returned, attempts left unused
C1_Witness ==
    /\ pc = "http_done" /\ max_retries > 3
    /\ outcomes[1] = Fail /\ outcomes[2] = Fail /\ outcomes[3] = PayloadB
    /\ gets = 3 /\ fres = Ok(PayloadB)

\* C10: a backoff sleep follows exactly each failed attempt that is not the last
\* allowed one; the first sleep lasts initial_delay, each later one double the
\* previous (up to the cap), and no sleep exceeds the 8 second cap.
C10_BackoffWithinCap ==
    /\ \A k \in 1..Len(sleeps) :
          /\ sleeps[k] <= CapMs
          /\ k = 1 => sleeps[k] = initial_delay
          /\ k > 1 => sleeps[k] = Min(2 * sleeps[k - 1], CapMs)
    /\ pc = "http_done" =>
          Len(sleeps) = (IF fres = Raised THEN Max(max_retries - 1, 0) ELSE gets - 1)

\* C8: to_float never raises and normalises both separator conventions:
\* "1.234,56" and "1,234.56" both give 1234.56; None, blank strings and "abc" give 0.0.
C8_BothSeparatorConventions ==
    pc = "to_float_done" =>
        /\ x = Str(S_EU) => res = DecNorm(123456, 2)
        /\ x = Str(S_US) => res = DecNorm(123456, 2)
        /\ x = None => res = Zero
        /\ (x.t = "str" /\ Strip(x.s) = <<>>) => res = Zero
        /\ x = Str(S_abc) => res = Zero

\* ------------------------------------------------------------------------
\* what http_get_json does with a planned sequence of GET outcomes
HttpResultOf(outs) ==
    LET ok == {k \in 1..Len(outs) : outs[k] # Fail}
    IN  IF ok = {} THEN Raised ELSE Ok(outs[SeqMin(ok)])

CollectReturned ==
    pc \in {"exit_no_rows", "frame", "monthly_top", "yearly_top", "summary", "finished"}

\* processing of bridge bid raises: in the loader, or while a record is normalised
ProcessingRaises(bid) ==
    LET h == FetchBridgeDailyAll(HttpResultOf(hist[bid]))
    IN  \/ h = Raised
        \/ NormalizeInto(<<>>, h.payload, bid, name_map).raised

RowsOf(bid) == LET Mine(r) == r.bridgeId = bid IN SelectSeq(rows, Mine)

\* C2: an id whose processing raises (the loader raising, or a record raising
\* after earlier records of the bridge were normalised) is skipped entirely: no
\* returned row has that bridgeId; every other id has exactly its own rows.
C2_FailedBridgeSkippedEntirely ==
    CollectReturned =>
        \A k \in 1..Len(ids_all) :
            IF ProcessingRaises(ids_all[k])
            THEN RowsOf(ids_all[k]) = <<>>
            ELSE RowsOf(ids_all[k]) =
                    CollectOne(<<>>, HttpResultOf(hist[ids_all[k]]), ids_all[k], name_map)

FatalExit == pc \in {"uncaught", "exit_empty_catalog", "exit_no_rows"}

\* C3 as claimed: a run ending in a fatal early error (catalog fetch failure,
\* empty catalog, zero daily rows) has written no output file at all.
C3_NoOutputBeforeFatalExit == FatalExit => written = <<>>

\* C3 as amended: a run ending in a catalog failure or an empty catalog has
\* written no file; a run ending for zero daily rows has written
\* all_bridges_daily.csv (header only) and no aggregated CSV.
C3_OnlyDailyBeforeFatalExit ==
    /\ pc \in {"uncaught", "exit_empty_catalog"} => written = <<>>
    /\ pc = "exit_no_rows" => (written = <<DailyCsv>> /\ rows = <<>>)

\* a catalog of two bridges loaded, both histories failed: exit after the daily CSV
C3_Witness ==
    /\ pc = "exit_no_rows" /\ Len(ids_all) = 2
    /\ written = <<DailyCsv>> /\ exit_status = ExitNoRows

Terminated == pc \in {"uncaught", "exit_empty_catalog", "exit_no_rows", "finished"}

\* the catalog cannot be loaded: fetch exhausted, schema violation, or empty
CatalogNotLoaded ==
    LET ov == FetchBridgesOverview(HttpResultOf(catalog))
    IN  ov = Raised \/ ov.payload = <<>>

\* C4: every run in which the catalog cannot be loaded ends with one non-zero
\* code (the code of line 250), every run with a catalog but zero daily rows ends
\* with a different non-zero code, every other run ends with 0.
C4_ExitCodesDistinguish ==
    Terminated =>
        IF CatalogNotLoaded THEN exit_status = ExitEmptyCatalog
        ELSE IF rows = <<>> THEN exit_status \notin {0, ExitEmptyCatalog}
        ELSE exit_status = 0

\* ------------------------------------------------------------------------
MonthlyTopDone == pc \in {"yearly_top", "summary", "finished"}
YearlyTopDone == pc \in {"summary", "finished"}

\* the rows of table t in period p (t has the column col)
InPeriod(t, col, p) == LET In(r) == PeriodOf(r, col) = p IN SelectSeq(t, In)
\* the entries of a top-N table in period p
TopInPeriod(top, p) == LET In(e) == e.period = p IN SelectSeq(top, In)
Periods(t, col) == {PeriodOf(t[k], col) : k \in 1..Len(t)}
Ids(t) == {t[k].bridgeId : k \in 1..Len(t)}

\* top is a correct top-n selection of the period table full
TopNCorrect(top, full, col, n) ==
    /\ \A k \in 1..Len(top) : top[k].period \in Periods(full, col)
    /\ \A p \in Periods(full, col) :
          LET fp == InPeriod(full, col, p)
              tp == TopInPeriod(top, p)
          IN  /\ Len(tp) <= n
              /\ Len(tp) = Min(n, Len(fp))
              /\ Cardinality(Ids(tp)) = Len(tp)
              /\ \A k \in 1..Len(tp) : \E j \in 1..Len(fp) :
                    fp[j].bridgeId = tp[k].bridgeId /\ fp[j].totalUSD = tp[k].totalUSD
              \* no omitted bridge has a strictly larger total than a selected one
              /\ \A j, k \in 1..Len(fp) :
                    (fp[k].bridgeId \in Ids(tp) /\ fp[j].bridgeId \notin Ids(tp))
                        => ~DecLess(fp[k].totalUSD, fp[j].totalUSD)
              \* among equal totals the earlier row of the table is preferred
              /\ \A j, k \in 1..Len(fp) :
                    (j < k /\ fp[j].totalUSD = fp[k].totalUSD /\ fp[k].bridgeId \in Ids(tp))
                        => fp[j].bridgeId \in Ids(tp)
              /\ n >= Len(fp) => Ids(tp) = Ids(fp)

\* C5: for every period table and N >= 1 the top-N result has min(N, bridges of
\* the period) rows per period, never more than N, never holds a bridge while
\* omitting one of the period with a strictly larger totalUSD, prefers the
\* earlier row among equal totals, and is the whole period when N >= its size.
C5_TopNRanking ==
    /\ MonthlyTopDone => TopNCorrect(monthly_top_n, monthly, "month", top_n)
    /\ YearlyTopDone => TopNCorrect(yearly_top_n, yearly, "year", top_n)

\* N = 1, a month with two bridges of equal volume: the first row is the one kept
C5_Witness ==
    /\ YearlyTopDone /\ top_n = 1
    /\ \E j, k \in 1..Len(monthly) :
          /\ j < k /\ monthly[j].month = monthly[k].month
          /\ monthly[j].totalUSD = monthly[k].totalUSD
          /\ Ids(TopInPeriod(monthly_top_n, monthly[j].month)) = {monthly[j].bridgeId}

ZeroShare == [k |-> "num", v |-> Zero]

\* C6: in every period whose total volume is 0 every top-N entry has shares 0.0,
\* also when non-zero totals cancel out; no infinite or undefined share occurs.
C6_ZeroTotalZeroShares ==
    /\ MonthlyTopDone =>
          \A k \in 1..Len(monthly_top_n) :
              /\ monthly_top_n[k].shares.k = "num"
              /\ PeriodTotal(monthly, "month", monthly_top_n[k].period) = Zero
                    => monthly_top_n[k].shares = ZeroShare
    /\ YearlyTopDone =>
          \A k \in 1..Len(yearly_top_n) :
              /\ yearly_top_n[k].shares.k = "num"
              /\ PeriodTotal(yearly, "year", yearly_top_n[k].period) = Zero
                    => yearly_top_n[k].shares = ZeroShare

\* e.shares is 100 * e.totalUSD / total rounded to 2 decimals (total # 0):
\* in hundredths of a percent it is an integer nearest to 10000 * totalUSD / total
ShareOfTotal(e, total) ==
    LET sc == Max(e.totalUSD.scale, total.scale)
        t  == AtScale(e.totalUSD, sc)
        tt == AtScale(total, sc)
        h  == AtScale(e.shares.v, 2)
    IN  /\ e.shares.k = "num"
        /\ e.shares.v.scale <= 2
        /\ 2 * Abs(h * tt - 10000 * t) <= Abs(tt)

\* C7: top-N selection never alters the share denominator: for every period
\* with a non-zero total each top-N entry's shares is 100 * totalUSD / total
\* rounded to 2 decimals, total being the sum over all bridges of the period in
\* the aggregated table, monthly and yearly.
C7_SharesOverFullPeriod ==
    /\ MonthlyTopDone =>
          \A k \in 1..Len(monthly_top_n) :
              LET total == ColSum(InPeriod(monthly, "month", monthly_top_n[k].period),
                                  "totalUSD")
              IN  total # Zero => ShareOfTotal(monthly_top_n[k], total)
    /\ YearlyTopDone =>
          \A k \in 1..Len(yearly_top_n) :
              LET total == ColSum(InPeriod(yearly, "year", yearly_top_n[k].period),
                                  "totalUSD")
              IN  total # Zero => ShareOfTotal(yearly_top_n[k], total)

\* A = 100 and B = 300 in one month, N = 1: exactly one row, B, 300, 75.00
C7_Witness ==
    /\ MonthlyTopDone /\ top_n = 1
    /\ Len(monthly) = 2
    /\ monthly[1].bridgeId = 1 /\ monthly[1].totalUSD = D(100)
    /\ monthly[2].bridgeId = 2 /\ monthly[2].totalUSD = D(300)
    /\ monthly[1].month = monthly[2].month
    /\ Len(monthly_top_n) = 1
    /\ monthly_top_n[1].bridgeId = 2 /\ monthly_top_n[1].totalUSD = D(300)
    /\ monthly_top_n[1].shares = [k |-> "num", v |-> D(75)]

\* year and month of a "YYYY-MM" string as one number
MonthNo(m) == 12 * DigitsVal(SubSeq(m, 1, 4)) + DigitsVal(SubSeq(m, 6, 7))

\* the daily rows whose calendar month lies in [start_month, end_month]
FilteredRows ==
    LET Keep(r) == /\ MonthNo(start_month) <= 12 * r.year + r.date.m
                   /\ 12 * r.year + r.date.m <= MonthNo(end_month)
    IN  SelectSeq(MapFrame(rows), Keep)

\* table t has one aggregate per (bridgeId, period) and conserves the volume of
\* the filtered rows fr in every period
Conserves(t, col, fr) ==
    /\ Periods(t, col) = Periods(fr, col)
    /\ \A j, k \in 1..Len(t) :
          (t[j].bridgeId = t[k].bridgeId /\ PeriodOf(t[j], col) = PeriodOf(t[k], col))
              => j = k
    /\ \A p \in Periods(fr, col) :
          /\ ColSum(InPeriod(t, col, p), "totalUSD") = ColSum(InPeriod(fr, col, p), "totalUSD")
          /\ Ids(InPeriod(t, col, p)) = Ids(InPeriod(fr, col, p))

\* main has computed df, monthly and yearly; they are not assigned again
AggregateDone == pc = "monthly_top"

\* C9: a daily row enters aggregation iff start_month <= its month <= end_month,
\* and for every period of the monthly and of the yearly table the totalUSD of
\* its aggregates sums to that of exactly the filtered daily rows of the
\* period, with one aggregate per (bridgeId, period).
C9_AggregationConservesVolume ==
    AggregateDone =>
        LET fr == FilteredRows
        IN  /\ df = fr
            /\ Conserves(monthly, "month", fr)
            /\ Conserves(yearly, "year", fr)

\* a 2022-09 row dropped, two 2022-10 rows of one bridge merged into one aggregate
C9_Witness ==
    /\ AggregateDone
    /\ Len(rows) = 3 /\ Len(df) = 2 /\ Len(monthly) = 1
    /\ \E k \in 1..3 : SubSeq(rows[k].date, 1, 7) = <<"2", "0", "2", "2", "-", "0", "9">>
    /\ monthly[1].month = M_2022_10
    /\ monthly[1].totalUSD = DecAdd(df[1].totalUSD, df[2].totalUSD)
    /\ monthly[1].totalUSD # Zero

====
